---------------------------- MODULE Spec2Model ----------------------------
(***************************************************************************)
(* A model of energyflow/multigraphs/gen.py: Generator, PrimeGenerator and *)
(* CompositeGenerator.  Graphs are igraph objects reduced to their vertex  *)
(* count and their edge list in edge-id order.                             *)
(***************************************************************************)
EXTENDS Integers, Sequences, FiniteSets

(***************************************************************************)
(* Bounds of the constructor arguments drawn in Init.                      *)
(***************************************************************************)
MaxDmax == 4
MaxNmax == 4
MaxEmax == 4
MaxCmax == 3
MaxVmax == 3
\* comp_dmaxs given as a number, and as a dictionary {n: d}
MaxCompDmaxs == 4
MaxCompN == 6
MaxCompD == 6
\* how many of the optional arguments a call of Generator gives at most
MaxGiven == 2
\* largest vertex count of a generated connected graph
MaxN == 4

\* Python's None for an optional argument: the empty set; a given value v is {v}
None == {}
Given(a) == CHOOSE v \in a : TRUE

(***************************************************************************)
(* Sequence helpers.                                                       *)
(***************************************************************************)
RECURSIVE Flatten(_)
Flatten(ss) == IF ss = << >> THEN << >> ELSE Head(ss) \o Flatten(Tail(ss))

RECURSIVE SumSeq(_)
SumSeq(s) == IF s = << >> THEN 0 ELSE Head(s) + SumSeq(Tail(s))

Range(s) == {s[i] : i \in DOMAIN s}

SetMax(S) == CHOOSE x \in S : \A y \in S : y <= x

Min2(a, b) == IF a <= b THEN a ELSE b

\* Python's sequence comparison of equal-length tuples of integers
RECURSIVE LexLess(_, _)
LexLess(a, b) ==
    IF a = << >> \/ b = << >> THEN a = << >> /\ b # << >>
    ELSE IF Head(a) # Head(b) THEN Head(a) < Head(b)
    ELSE LexLess(Tail(a), Tail(b))

\* insertion of x into a sorted sequence, after its equals (a stable sort's step)
RECURSIVE InsertSorted(_, _)
InsertSorted(x, s) ==
    IF s = << >> THEN << x >>
    ELSE IF LexLess(x, Head(s)) THEN << x >> \o s
    ELSE << Head(s) >> \o InsertSorted(x, Tail(s))

\* sorted(list of tuples)
RECURSIVE Sorted(_)
Sorted(s) == IF s = << >> THEN << >>
             ELSE InsertSorted(s[Len(s)], Sorted(SubSeq(s, 1, Len(s) - 1)))

(***************************************************************************)
(* igraph: Graph.Full, copy/add_vertices/add_edges, get_edgelist,          *)
(* maxdegree, strength, isomorphic and isomorphic_vf2 with edge colours.   *)
(***************************************************************************)
\* the permutations of the vertices 0..n-1
Perms == [n \in 0..(MaxN + 1) |->
            {p \in [0..(n - 1) -> 0..(n - 1)] :
                \A i, j \in 0..(n - 1) : p[i] = p[j] => i = j}]

\* igraph.Graph.Full(2, directed=False)
Full2 == [n |-> 2, el |-> << <<0, 1>> >>]

\* seed_graph.copy(); add_vertices(1); add_edges([(v, n-1)])
AttachVertexNoEdge(g, v) == [n |-> g.n + 1, el |-> g.el]

AttachVertex(g, v) == [n |-> g.n + 1, el |-> Append(g.el, <<v, g.n>>)]

\* seed_graph.copy(); add_edges([new_edge])
AddEdge(g, edge) == [n |-> g.n, el |-> Append(g.el, edge)]

\* new_graph.get_edgelist()
GetEdgelist(g) == g.el

\* the undirected edge with id i, as the set of its ends
Ends(g, i) == {g.el[i][1], g.el[i][2]}

EdgeSet(g) == {Ends(g, i) : i \in DOMAIN g.el}

Degree(g, v) == Cardinality({i \in DOMAIN g.el : v \in Ends(g, i)})

\* new_graph.maxdegree()
MaxDegree(g) == SetMax({Degree(g, v) : v \in 0..(g.n - 1)})

\* graph.strength(weights=part) at vertex v: a self-loop would count twice
Strength(g, part, v) ==
    SumSeq([i \in DOMAIN g.el |-> IF v \in Ends(g, i) THEN part[i] ELSE 0])

\* max(graph.strength(weights=part))
MaxStrength(g, part) == SetMax({Strength(g, part, v) : v \in 0..(g.n - 1)})

\* p maps the edges of g1 one to one onto the edges of g2
IsIso(p, g1, g2) ==
    /\ {{p[x] : x \in Ends(g1, i)} : i \in DOMAIN g1.el} = EdgeSet(g2)
    /\ \A i \in DOMAIN g1.el : Cardinality({p[x] : x \in Ends(g1, i)}) = 2

\* new_graph.isomorphic(graph)
Isomorphic(g1, g2) ==
    /\ g1.n = g2.n
    /\ Len(g1.el) = Len(g2.el)
    /\ \E p \in Perms[g1.n] : IsIso(p, g1, g2)

\* graph.isomorphic_vf2(other=graph, edge_color1=c1, edge_color2=c2)
IsomorphicVf2(g, c1, c2) ==
    \E p \in Perms[g.n] :
        /\ IsIso(p, g, g)
        /\ \A i, j \in DOMAIN g.el :
              {p[x] : x \in Ends(g, i)} = Ends(g, j) => c1[i] = c2[j]

(***************************************************************************)
(* energyflow.algorithms: VariableElimination and the integer partitions.  *)
(***************************************************************************)
Neighbours(E, v) == {u \in (UNION E) \ {v} : {u, v} \in E}

\* the vertex eliminated next: fewest neighbours, lowest index first
NextVertex(V, E) ==
    CHOOSE v \in V :
        \A u \in V : \/ Cardinality(Neighbours(E, v)) < Cardinality(Neighbours(E, u))
                     \/ /\ Cardinality(Neighbours(E, v)) = Cardinality(Neighbours(E, u))
                        /\ v <= u

\* the greedy elimination order of the vertices V of the graph with edges E
RECURSIVE ElimOrder(_, _)
ElimOrder(V, E) ==
    IF V = {} THEN << >>
    ELSE LET v  == NextVertex(V, E)
             nb == Neighbours(E, v)
             E2 == {e \in E : v \notin e} \cup ({{a, b} : a, b \in nb} \ {{a} : a \in nb})
         IN  << <<v, Cardinality(nb) + 1>> >> \o ElimOrder(V \ {v}, E2)

\* VariableElimination.run(edges, n): the order and the complexity chi, the
\* largest number of indices met in one contraction
VeRun(edges, n) ==
    LET ord == ElimOrder(0..(n - 1), {{edges[i][1], edges[i][2]} : i \in DOMAIN edges})
    IN  [chi     |-> SetMax({ord[i][2] : i \in DOMAIN ord}),
         einstr  |-> edges,
         einpath |-> [i \in DOMAIN ord |-> ord[i][1]]]

\* VariableElimination.einspecs()
Einspecs(v) == <<v.einstr, v.einpath>>

\* each list of ss with x put in front
RECURSIVE PrependAll(_, _)
PrependAll(x, ss) ==
    IF ss = << >> THEN << >>
    ELSE << << x >> \o Head(ss) >> \o PrependAll(x, Tail(ss))

\* int_partition_ordered(d, e): the e-tuples of positive integers that sum to d,
\* in lexicographic order (OrderedFrom: those whose first entry is >= f)
RECURSIVE IntPartitionOrdered(_, _)
RECURSIVE OrderedFrom(_, _, _)
OrderedFrom(d, e, f) ==
    IF f > d - e + 1 THEN << >>
    ELSE PrependAll(f, IntPartitionOrdered(d - f, e - 1)) \o OrderedFrom(d, e, f + 1)

IntPartitionOrdered(d, e) ==
    IF e = 0 THEN (IF d = 0 THEN << << >> >> ELSE << >>)
    ELSE OrderedFrom(d, e, 1)

\* the partitions of n into non-decreasing parts each >= lo, lexicographic
RECURSIVE PartitionsFrom(_, _)
PartitionsFrom(n, lo) ==
    IF n = 0 THEN << << >> >>
    ELSE IF n < lo THEN << >>
    ELSE PrependAll(lo, PartitionsFrom(n - lo, lo)) \o PartitionsFrom(n, lo + 1)

\* int_partition_unordered(n): each multiset of positive integers that sums to
\* n, once, as a non-decreasing list
IntPartitionUnordered(n) == PartitionsFrom(n, 1)

(***************************************************************************)
(* The state of one Generator(dmax, nmax, emax, cmax, vmax, comp_dmaxs).   *)
(***************************************************************************)
VARIABLES
    args,            \* the constructor's arguments
    igraph,          \* whether igraph_import() found the library
    pc,              \* where the constructor stands
    err,             \* the exception that ended it, or "none"
    self,            \* PrimeGenerator's parameters, << >> until stored
    ve,              \* self.ve: the result of the last run, << >> before one
    simple_graphs_d, edges_d, chis_d, vs_d, einpaths_d, einstrs_d, weights_d,
    bi, ci,          \* generate_simple: the bucket and the candidate in turn
    wi, gi,          \* generate_weights: the bucket and the graph in turn
    c_specs, edges, weights, einstrs, einpaths,   \* PrimeGenerator.results()
    comp,            \* CompositeGenerator's dmaxs, ns, ks, ndk2w, nmax_avail
    cpos,            \* generate_disconnected: where its loops over n, d and
                     \* n_part stand
    loc_formulae, loc_specs,    \* its local lists disc_formulae, disc_specs
    disc_specs, disc_formulae,  \* CompositeGenerator.results()
    sd_args,         \* softdrop: zcut, beta and R of the call
    sd_jet,          \* the jet of the call in turn: the path of parents taken
                     \* from the jet given, << >> for the jet itself
    sd_chain,        \* what has_parents, pt and delta_R gave for each jet
    sd_pc,           \* "idle", "call", "returned" or "error"
    sd_ret,          \* the jet returned
    ef_args,         \* EFN.eval_filters: patch, n and prune of the call
    ef_loc,          \* its local variables, by name, once assigned
    ef_Z,            \* the filters evaluated by kf: for each, whether it is
                     \* nonzero somewhere on the grid; << >> before the call
    ef_pc,           \* "idle", "patch", "pixels", "grid", "kf", "prune",
                     \* "returned" or "error"
    ef_err,          \* the exception that ended the call, or "none"
    ef_ret,          \* the filters of the Z returned
    efp_args,        \* EFP(edges, measure): the edges and use_efms
    efp_self,        \* the attributes assigned to the EFP, by name
    efp_pc,          \* "idle", "new", "built", "read" or "error"
    efp_err,         \* the exception reading c raised, or "none"
    efp_ret          \* what reading c returned

simple_vars == <<simple_graphs_d, edges_d, chis_d, vs_d, einpaths_d, einstrs_d>>
prime_vars  == <<self, ve, simple_vars, weights_d, bi, ci, wi, gi>>
result_vars == <<c_specs, edges, weights, einstrs, einpaths>>
comp_vars   == <<comp, cpos, loc_formulae, loc_specs, disc_specs, disc_formulae>>
sd_vars     == <<sd_args, sd_jet, sd_chain, sd_pc, sd_ret>>
ef_vars     == <<ef_args, ef_loc, ef_Z, ef_pc, ef_err, ef_ret>>
efp_vars    == <<efp_args, efp_self, efp_pc, efp_err, efp_ret>>
obs_vars    == <<ef_vars, efp_vars>>
vars        == <<args, igraph, pc, err, prime_vars, result_vars, comp_vars, sd_vars,
                 obs_vars>>

\* list(range(a, b))
RangeSeq(a, b) == [i \in 1..(b - a) |-> a + i - 1]

\* d with d[k] = v, the key k added when it is new
DictSet(d, k, v) == [x \in (DOMAIN d) \cup {k} |-> IF x = k THEN v ELSE d[x]]

\* comp_dmaxs: None, an int, a dict, or something else (a float, a string)
NoDmaxs == [kind |-> "None"]

CompDmaxsArgs ==
    {NoDmaxs, [kind |-> "other"]}
    \cup {[kind |-> "int", val |-> v] : v \in 1..MaxCompDmaxs}
    \cup {[kind |-> "dict", val |-> [n \in {k} |-> d]] : k \in 4..MaxCompN, d \in 1..MaxCompD}

\* the arguments a caller may pass
ArgSets ==
    [dmax : 1..MaxDmax,
     nmax : {None} \cup {{v} : v \in 1..MaxNmax},
     emax : {None} \cup {{v} : v \in 0..MaxEmax},
     cmax : {None} \cup {{v} : v \in 1..MaxCmax},
     vmax : {None} \cup {{v} : v \in 0..MaxVmax},
     comp_dmaxs : CompDmaxsArgs]

\* a default that stops at dmax vertices
DefaultNmaxIsDmax(dmax) == dmax

\* nmax if nmax is not None else self.dmax+1
DefaultNmax(dmax) == dmax + 1

EffectiveNmax(a) == IF a.nmax # None THEN Given(a.nmax) ELSE DefaultNmax(a.dmax)

\* no call of softdrop
NoSoftdrop ==
    /\ sd_args = << >> /\ sd_jet = << >> /\ sd_chain = << >>
    /\ sd_pc = "idle" /\ sd_ret = << >>

\* no call of EFN.eval_filters
NoEvalFilters ==
    /\ ef_args = << >> /\ ef_loc = << >> /\ ef_Z = << >>
    /\ ef_pc = "idle" /\ ef_err = "none" /\ ef_ret = << >>

\* no EFP constructed
NoEFP ==
    /\ efp_args = << >> /\ efp_self = << >>
    /\ efp_pc = "idle" /\ efp_err = "none" /\ efp_ret = << >>

\* nothing of a Generator built
NothingBuilt ==
    /\ err = "none"
    /\ self = << >>
    /\ ve = << >>
    /\ simple_graphs_d = << >> /\ edges_d = << >> /\ chis_d = << >> /\ vs_d = << >>
    /\ einpaths_d = << >> /\ einstrs_d = << >> /\ weights_d = << >>
    /\ bi = 0 /\ ci = 0 /\ wi = 0 /\ gi = 0
    /\ c_specs = << >> /\ edges = << >> /\ weights = << >>
    /\ einstrs = << >> /\ einpaths = << >>
    /\ comp = << >>
    /\ cpos = << >>
    /\ loc_formulae = << >> /\ loc_specs = << >>
    /\ disc_specs = << >> /\ disc_formulae = << >>

\* the state before Generator(...) is called with arguments among A
InitWith(A) ==
    /\ args \in A
    /\ igraph \in BOOLEAN
    /\ pc = "new"
    /\ NoSoftdrop
    /\ NoEvalFilters
    /\ NoEFP
    /\ NothingBuilt

\* how many optional arguments the call gives
NumGiven(a) ==
    Cardinality({x \in {<<"nmax", a.nmax>>, <<"emax", a.emax>>, <<"cmax", a.cmax>>,
                        <<"vmax", a.vmax>>} : x[2] # None})
    + (IF a.comp_dmaxs # NoDmaxs THEN 1 ELSE 0)

\* Generator(dmax, ...) with at most MaxGiven optional arguments
Init == InitWith({a \in ArgSets : EffectiveNmax(a) <= MaxN /\ NumGiven(a) <= MaxGiven})

\* PrimeGenerator(dmax, nmax, emax, cmax, vmax) with any of them given
InitPrime == InitWith({a \in ArgSets : EffectiveNmax(a) <= MaxN /\ a.comp_dmaxs = NoDmaxs})

Raise(e) == pc' = "error" /\ err' = e

(***************************************************************************)
(* PrimeGenerator.__init__                                                 *)
(***************************************************************************)
\* the parameters, the n and e values and the per-bucket degree caps
StoreParameters(a) ==
    LET dmax  == a.dmax
        nmax  == IF a.nmax # None THEN Given(a.nmax) ELSE DefaultNmax(dmax)
        emax  == IF a.emax # None THEN Given(a.emax) ELSE dmax
        cmax  == IF a.cmax # None THEN Given(a.cmax) ELSE nmax
        vmax  == IF a.vmax # None THEN Given(a.vmax) ELSE dmax
        ns    == RangeSeq(2, nmax + 1)
        emaxs == [n \in Range(ns) |-> Min2(emax, (n * (n - 1)) \div 2)]
        esbyn == [n \in Range(ns) |-> RangeSeq(n - 1, emaxs[n] + 1)]
    IN  [dmax |-> dmax, nmax |-> nmax, emax |-> emax, cmax |-> cmax, vmax |-> vmax,
         ns |-> ns, emaxs |-> emaxs, esbyn |-> esbyn,
         dmaxs |-> [ne \in {x \in Range(ns) \X (0..emax) : x[2] \in Range(esbyn[x[1]])}
                    |-> dmax]]

\* {(n,e): [] for n in self.ns for e in self.esbyn[n]}
EmptyContainer(s) == [ne \in DOMAIN s.dmaxs |-> << >>]

\* a constructor that looks for igraph only after it has set itself up
PrimeInitCheckLate ==
    /\ pc = "new"
    /\ self' = StoreParameters(args)
    /\ simple_graphs_d' = EmptyContainer(self')
    /\ edges_d' = EmptyContainer(self')
    /\ chis_d' = EmptyContainer(self')
    /\ vs_d' = EmptyContainer(self')
    /\ einpaths_d' = EmptyContainer(self')
    /\ einstrs_d' = EmptyContainer(self')
    /\ weights_d' = EmptyContainer(self')
    /\ IF ~igraph THEN Raise("NotImplementedError")
                  ELSE pc' = "generate_simple" /\ UNCHANGED err
    /\ UNCHANGED <<obs_vars, sd_vars, args, igraph, ve, bi, ci, wi, gi, result_vars, comp_vars>>

PrimeInit ==
    /\ pc = "new"
    /\ IF ~igraph
       THEN /\ Raise("NotImplementedError")
            /\ UNCHANGED <<prime_vars>>
       ELSE /\ self' = StoreParameters(args)
            /\ simple_graphs_d' = EmptyContainer(self')
            /\ edges_d' = EmptyContainer(self')
            /\ chis_d' = EmptyContainer(self')
            /\ vs_d' = EmptyContainer(self')
            /\ einpaths_d' = EmptyContainer(self')
            /\ einstrs_d' = EmptyContainer(self')
            /\ weights_d' = EmptyContainer(self')
            /\ pc' = "generate_simple"
            /\ UNCHANGED <<err, ve, bi, ci, wi, gi>>
    /\ UNCHANGED <<obs_vars, sd_vars, args, igraph, result_vars, comp_vars>>

(***************************************************************************)
(* PrimeGenerator.generate_simple and _add_if_new                          *)
(***************************************************************************)
\* list(itertools.combinations(range(n), 2))
BaseEdges(n) ==
    Flatten([i \in 1..n |-> [j \in 1..(n - i) |-> <<i - 1, i - 1 + j>>]])

\* a filter that looks each base edge (i,j) up as (j,i)
RECURSIVE FilterOutReversed(_, _)
FilterOutReversed(base, edgs) ==
    IF base = << >> THEN << >>
    ELSE (IF <<Head(base)[2], Head(base)[1]>> \in Range(edgs) THEN << >> ELSE << Head(base) >>)
         \o FilterOutReversed(Tail(base), edgs)

\* _edge_filter(n, edges): the base edges not in the list, in base order
RECURSIVE FilterOut(_, _)
FilterOut(base, edgs) ==
    IF base = << >> THEN << >>
    ELSE (IF Head(base) \in Range(edgs) THEN << >> ELSE << Head(base) >>)
         \o FilterOut(Tail(base), edgs)

EdgeFilter(n, edgs) == FilterOut(BaseEdges(n), edgs)

\* the buckets of the loops over self.ns[1:] and self.esbyn[n], in loop order
BucketSeq(s) ==
    Flatten([i \in 1..(Len(s.ns) - 1) |->
                [j \in DOMAIN s.esbyn[s.ns[i + 1]] |->
                    <<s.ns[i + 1], s.esbyn[s.ns[i + 1]][j]>>]])

\* a loop that attaches the new vertex to vertex 0 of each seed only
NewVertexCandidatesAtFirstVertex(n, e) ==
    IF (e - 1) \in Range(self.esbyn[n - 1])
    THEN [k \in DOMAIN simple_graphs_d[<<n - 1, e - 1>>] |->
            AttachVertex(simple_graphs_d[<<n - 1, e - 1>>][k], 0)]
    ELSE << >>

\* the graphs made by attaching a new vertex to each seed of bucket (n-1,e-1)
NewVertexCandidates(n, e) ==
    IF (e - 1) \in Range(self.esbyn[n - 1])
    THEN Flatten([k \in DOMAIN simple_graphs_d[<<n - 1, e - 1>>] |->
                    [v \in 1..(n - 1) |->
                        AttachVertex(simple_graphs_d[<<n - 1, e - 1>>][k], v - 1)]])
    ELSE << >>

\* the graphs made by adding a missing edge to each seed of bucket (n,e-1)
NewEdgeCandidates(n, e) ==
    IF (e - 1) \in Range(self.esbyn[n])
    THEN Flatten([k \in 1..Min2(Len(simple_graphs_d[<<n, e - 1>>]),
                                Len(edges_d[<<n, e - 1>>])) |->
                    LET new == EdgeFilter(n, edges_d[<<n, e - 1>>][k])
                    IN  [m \in DOMAIN new |->
                            AddEdge(simple_graphs_d[<<n, e - 1>>][k], new[m])]])
    ELSE << >>

\* the graphs handed to _add_if_new for bucket (n,e), in the order of the calls
Candidates(ne) == NewVertexCandidates(ne[1], ne[2]) \o NewEdgeCandidates(ne[1], ne[2])

\* a check that only finds a graph stored with the very same edge list
SameAsStored(g, ne) ==
    \E k \in DOMAIN simple_graphs_d[ne] : simple_graphs_d[ne][k] = g

\* the isomorphism check against the graphs of the bucket
IsomorphicToStored(g, ne) ==
    \E k \in DOMAIN simple_graphs_d[ne] : Isomorphic(g, simple_graphs_d[ne][k])

\* a check that lets a complexity of cmax+1 through
ChiTooLargeOffByOne(chi) == chi > self.cmax + 1

\* the check of the elimination complexity
ChiTooLarge(chi) == chi > self.cmax

\* the check of the maximum valency
ValencyTooLarge(maxv) == maxv > self.vmax

\* appends that leave vs_d out
StoreWithoutVs(g, ne, new_edges, chi, maxv, specs) ==
    /\ simple_graphs_d' = [simple_graphs_d EXCEPT ![ne] = Append(@, g)]
    /\ edges_d' = [edges_d EXCEPT ![ne] = Append(@, new_edges)]
    /\ chis_d' = [chis_d EXCEPT ![ne] = Append(@, chi)]
    /\ vs_d' = vs_d
    /\ einstrs_d' = [einstrs_d EXCEPT ![ne] = Append(@, specs[1])]
    /\ einpaths_d' = [einpaths_d EXCEPT ![ne] = Append(@, specs[2])]

\* the appends of _add_if_new: the graph, its edges, chi, maxv, einstr, einpath
Store(g, ne, new_edges, chi, maxv, specs) ==
    /\ simple_graphs_d' = [simple_graphs_d EXCEPT ![ne] = Append(@, g)]
    /\ edges_d' = [edges_d EXCEPT ![ne] = Append(@, new_edges)]
    /\ chis_d' = [chis_d EXCEPT ![ne] = Append(@, chi)]
    /\ vs_d' = [vs_d EXCEPT ![ne] = Append(@, maxv)]
    /\ einstrs_d' = [einstrs_d EXCEPT ![ne] = Append(@, specs[1])]
    /\ einpaths_d' = [einpaths_d EXCEPT ![ne] = Append(@, specs[2])]

\* _add_if_new(new_graph, ne)
AddIfNew(g, ne) ==
    IF IsomorphicToStored(g, ne)
    THEN UNCHANGED <<ve, simple_vars>>
    ELSE \E run \in {VeRun(GetEdgelist(g), ne[1])} :
            /\ ve' = run
            /\ IF ChiTooLarge(run.chi) \/ ValencyTooLarge(MaxDegree(g))
               THEN UNCHANGED simple_vars
               ELSE Store(g, ne, GetEdgelist(g), run.chi, MaxDegree(g), Einspecs(run))

\* generate_simple up to its first call, of _add_if_new on the single edge
GenerateSimple ==
    /\ pc = "generate_simple"
    /\ IF <<2, 1>> \notin DOMAIN simple_graphs_d
       THEN /\ Raise("KeyError")
            /\ UNCHANGED <<ve, simple_vars, bi, ci>>
       ELSE /\ AddIfNew(Full2, <<2, 1>>)
            /\ pc' = "simple_loop"
            /\ bi' = 1
            /\ ci' = 1
            /\ UNCHANGED err
    /\ UNCHANGED <<obs_vars, sd_vars, args, igraph, self, weights_d, wi, gi, result_vars, comp_vars>>

\* one pass of the innermost loops: the next candidate goes to _add_if_new
AddCandidate ==
    /\ pc = "simple_loop"
    /\ bi <= Len(BucketSeq(self))
    /\ ci <= Len(Candidates(BucketSeq(self)[bi]))
    /\ AddIfNew(Candidates(BucketSeq(self)[bi])[ci], BucketSeq(self)[bi])
    /\ ci' = ci + 1
    /\ UNCHANGED <<obs_vars, sd_vars, args, igraph, pc, err, self, weights_d, bi, wi, gi,
                   result_vars, comp_vars>>

\* the loops over n and e move to the next bucket
NextBucket ==
    /\ pc = "simple_loop"
    /\ bi <= Len(BucketSeq(self))
    /\ ci > Len(Candidates(BucketSeq(self)[bi]))
    /\ bi' = bi + 1
    /\ ci' = 1
    /\ UNCHANGED <<obs_vars, sd_vars, args, igraph, pc, err, self, ve, simple_vars, weights_d, wi, gi,
                   result_vars, comp_vars>>

\* a return of generate_simple before its loops are through
SimpleDoneEarly ==
    /\ pc = "simple_loop"
    /\ bi >= 1
    /\ pc' = "generate_weights"
    /\ UNCHANGED <<obs_vars, sd_vars, args, igraph, err, prime_vars, result_vars, comp_vars>>

\* generate_simple returns and __init__ calls generate_weights
SimpleDone ==
    /\ pc = "simple_loop"
    /\ bi > Len(BucketSeq(self))
    /\ pc' = "generate_weights"
    /\ UNCHANGED <<obs_vars, sd_vars, args, igraph, err, prime_vars, result_vars, comp_vars>>

(***************************************************************************)
(* PrimeGenerator.generate_weights                                         *)
(***************************************************************************)
\* the n=2 case: [(d,) for d in range(1, self.dmaxs[(2,1)]+1)]
SingleEdgeWeightings(s) == [d \in 1..s.dmaxs[<<2, 1>>] |-> << d >>]

\* parts[(d,e)] for d in range(e, self.dmaxs[(n,e)]+1), one after the other
PartsFor(s, ne) ==
    Flatten([k \in 1..(s.dmaxs[ne] - ne[2] + 1) |->
                IntPartitionOrdered(ne[2] + k - 1, ne[2])])

\* a check that also turns away a strength of exactly vmax
WeightedValencyAtLeastVmax(s, graph, part) ==
    s.vmax < s.dmax /\ MaxStrength(graph, part) >= s.vmax

\* the check that the maximum valency is not exceeded
WeightedValencyTooLarge(s, graph, part) ==
    s.vmax < s.dmax /\ MaxStrength(graph, part) > s.vmax

\* a check that only finds the very same weighting
SameAsKept(graph, weightings, part) == part \in Range(weightings)

\* the check of a part against the weightings kept so far
IsomorphicToKept(graph, weightings, part) ==
    \E k \in DOMAIN weightings : IsomorphicVf2(graph, weightings[k], part)

\* the loops over d and part for one graph: the weightings kept, in order
RECURSIVE KeepParts(_, _, _, _)
KeepParts(s, graph, todo, weightings) ==
    IF todo = << >> THEN weightings
    ELSE LET part == Head(todo)
         IN  IF WeightedValencyTooLarge(s, graph, part)
                \/ IsomorphicToKept(graph, weightings, part)
             THEN KeepParts(s, graph, Tail(todo), weightings)
             ELSE KeepParts(s, graph, Tail(todo), Append(weightings, part))

Weightings(s, graph, ne) == KeepParts(s, graph, PartsFor(s, ne), << >>)

\* generate_weights up to its loops: the n=2 case (the partitions it then
\* tabulates are read through PartsFor)
GenerateWeights ==
    /\ pc = "generate_weights"
    /\ weights_d' = [weights_d EXCEPT ![<<2, 1>>] = Append(@, SingleEdgeWeightings(self))]
    /\ pc' = "weights_loop"
    /\ wi' = 1
    /\ gi' = 1
    /\ UNCHANGED <<obs_vars, sd_vars, args, igraph, err, self, ve, simple_vars, bi, ci,
                   result_vars, comp_vars>>

\* one pass of the loop over the simple graphs of a bucket
WeightGraph ==
    /\ pc = "weights_loop"
    /\ wi <= Len(BucketSeq(self))
    /\ gi <= Len(simple_graphs_d[BucketSeq(self)[wi]])
    /\ \E ne \in {BucketSeq(self)[wi]} :
          weights_d' = [weights_d EXCEPT ![ne] =
                            Append(@, Weightings(self, simple_graphs_d[ne][gi], ne))]
    /\ gi' = gi + 1
    /\ UNCHANGED <<obs_vars, sd_vars, args, igraph, pc, err, self, ve, simple_vars, bi, ci, wi,
                   result_vars, comp_vars>>

\* the loops over n and e move to the next bucket
NextWeightBucket ==
    /\ pc = "weights_loop"
    /\ wi <= Len(BucketSeq(self))
    /\ gi > Len(simple_graphs_d[BucketSeq(self)[wi]])
    /\ wi' = wi + 1
    /\ gi' = 1
    /\ UNCHANGED <<obs_vars, sd_vars, args, igraph, pc, err, self, ve, simple_vars, weights_d, bi, ci,
                   result_vars, comp_vars>>

\* generate_weights and PrimeGenerator.__init__ return
WeightsDone ==
    /\ pc = "weights_loop"
    /\ wi > Len(BucketSeq(self))
    /\ pc' = "results"
    /\ UNCHANGED <<obs_vars, sd_vars, args, igraph, err, prime_vars, result_vars, comp_vars>>

(***************************************************************************)
(* PrimeGenerator.results                                                  *)
(***************************************************************************)
\* sorted(self.edges_d.keys())
SortedKeys(s) ==
    (IF <<2, 1>> \in DOMAIN s.dmaxs THEN << <<2, 1>> >> ELSE << >>) \o BucketSeq(s)

\* the tuples of zip(edges_d[ne], weights_d[ne], chis_d[ne], vs_d[ne],
\* einstrs_d[ne], einpaths_d[ne]) over the sorted buckets
ZipLen(ne) ==
    Min2(Min2(Len(edges_d[ne]), Len(weights_d[ne])),
         Min2(Min2(Len(chis_d[ne]), Len(vs_d[ne])),
              Min2(Len(einstrs_d[ne]), Len(einpaths_d[ne]))))

Zipped ==
    Flatten([b \in DOMAIN SortedKeys(self) |->
        LET ne == SortedKeys(self)[b]
        IN  [k \in 1..ZipLen(ne) |->
                [n |-> ne[1], e |-> ne[2], edgs |-> edges_d[ne][k],
                 wghts |-> weights_d[ne][k], chi |-> chis_d[ne][k],
                 v |-> vs_d[ne][k], es |-> einstrs_d[ne][k],
                 ep |-> einpaths_d[ne][k]]]])

\* d taken as the number of entries of the weighting
RowDegreeAsLen(weighting) == Len(weighting)

\* d = sum(weighting)
RowDegree(weighting) == SumSeq(weighting)

\* k = ks.setdefault((n,d), 0) with the counts ks so far
RowIndex(ks, n, d) == IF <<n, d>> \in DOMAIN ks THEN ks[<<n, d>>] ELSE 0

\* the loop over the weightings of the graph with index g (acc: the rows, the
\* weights and ks so far)
RECURSIVE RowsOfGraph(_, _, _, _)
RowsOfGraph(z, g, todo, acc) ==
    IF todo = << >> THEN acc
    ELSE LET weighting == Head(todo)
             d == RowDegree(weighting)
             k == RowIndex(acc.ks, z.n, d)
             w == Len(acc.weights)
         IN  RowsOfGraph(z, g, Tail(todo),
                [c_specs |-> Append(acc.c_specs,
                                [n |-> z.n, e |-> z.e, d |-> d, v |-> z.v, k |-> k,
                                 g |-> g, w |-> w, c |-> z.chi, p |-> 1]),
                 weights |-> Append(acc.weights, weighting),
                 ks      |-> DictSet(acc.ks, <<z.n, d>>, k + 1)])

\* the loop over the zipped graphs, g counting them
RECURSIVE RowsFrom(_, _, _)
RowsFrom(zs, g, acc) ==
    IF g >= Len(zs) THEN acc
    ELSE RowsFrom(zs, g + 1, RowsOfGraph(zs[g + 1], g, zs[g + 1].wghts, acc))

PrimeRows == RowsFrom(Zipped, 0, [c_specs |-> << >>, weights |-> << >>, ks |-> << >>])

\* results() with edges appended once per weighting's graph only when the
\* graph has a weighting
ResultsSkippingWeightless ==
    /\ pc = "results"
    /\ \E zs \in {SelectSeq(Zipped, LAMBDA z : z.wghts # << >>)}, rows \in {PrimeRows} :
          /\ c_specs' = rows.c_specs
          /\ weights' = rows.weights
          /\ edges' = [g \in DOMAIN zs |-> zs[g].edgs]
          /\ einstrs' = [g \in DOMAIN zs |-> zs[g].es]
          /\ einpaths' = [g \in DOMAIN zs |-> zs[g].ep]
    /\ pc' = "composite_init"
    /\ UNCHANGED <<obs_vars, sd_vars, args, igraph, err, prime_vars, comp_vars>>

\* Generator.__init__ stores PrimeGenerator.results()
Results ==
    /\ pc = "results"
    /\ \E zs \in {Zipped}, rows \in {PrimeRows} :
          /\ c_specs' = rows.c_specs
          /\ weights' = rows.weights
          /\ edges' = [g \in DOMAIN zs |-> zs[g].edgs]
          /\ einstrs' = [g \in DOMAIN zs |-> zs[g].es]
          /\ einpaths' = [g \in DOMAIN zs |-> zs[g].ep]
    /\ pc' = "composite_init"
    /\ UNCHANGED <<obs_vars, sd_vars, args, igraph, err, prime_vars, comp_vars>>

(***************************************************************************)
(* CompositeGenerator.__init__                                             *)
(***************************************************************************)
\* self.dmaxs: the dict given, or {n: dmaxs for n in range(4, 2*dmaxs+1)} with
\* dmaxs the int given or, for None, the largest d of c_specs
CompDmaxs(a, rows) ==
    IF a.comp_dmaxs.kind = "dict" THEN a.comp_dmaxs.val
    ELSE [n \in 4..(2 * (IF a.comp_dmaxs.kind = "int" THEN a.comp_dmaxs.val
                         ELSE SetMax({rows[i].d : i \in DOMAIN rows})))
            |-> IF a.comp_dmaxs.kind = "int" THEN a.comp_dmaxs.val
                ELSE SetMax({rows[i].d : i \in DOMAIN rows})]

\* sorted(self.dmaxs.keys())
RECURSIVE SortedInts(_)
SortedInts(S) ==
    IF S = {} THEN << >>
    ELSE LET m == CHOOSE x \in S : \A y \in S : x <= y
         IN  << m >> \o SortedInts(S \ {m})

\* the loop over c_specs that counts the primes of each (n,d) and maps each
\* (n,d,k) to its w
RECURSIVE CountPrimes(_, _)
CountPrimes(rows, acc) ==
    IF rows = << >> THEN acc
    ELSE LET r == Head(rows)
             seen == IF <<r.n, r.d>> \in DOMAIN acc.ks THEN acc.ks[<<r.n, r.d>>] ELSE 0
         IN  CountPrimes(Tail(rows),
                [ks    |-> DictSet(acc.ks, <<r.n, r.d>>, seen + 1),
                 ndk2w |-> DictSet(acc.ndk2w, <<r.n, r.d, r.k>>, r.w)])

\* a loop over d that starts at int(n/2)+1
FirstDTooHigh(n) == (n \div 2) + 1

\* for d in range(int((n-1)/2)+1, ...): the first d
FirstD(n) == ((n - 1) \div 2) + 1

\* the loops of generate_disconnected before their first pass
FirstPos(c) ==
    [ni |-> 1, d |-> IF c.ns = << >> THEN 0 ELSE FirstD(c.ns[1]), pi |-> 1]

CompositeInit ==
    /\ pc = "composite_init"
    /\ IF args.comp_dmaxs.kind = "other"
       THEN /\ Raise("TypeError")
            /\ UNCHANGED comp_vars
       ELSE IF c_specs = << >>
       THEN /\ Raise("IndexError")
            /\ UNCHANGED comp_vars
       ELSE /\ \E dmaxs \in {CompDmaxs(args, c_specs)},
                  cnt \in {CountPrimes(c_specs, [ks |-> << >>, ndk2w |-> << >>])} :
                  \E c \in {[dmaxs |-> dmaxs,
                             ns |-> SortedInts(DOMAIN dmaxs),
                             ks |-> cnt.ks,
                             ndk2w |-> cnt.ndk2w,
                             nmax_avail |-> SetMax({c_specs[i].n : i \in DOMAIN c_specs})]} :
                      /\ comp' = c
                      /\ cpos' = FirstPos(c)
            /\ pc' = "generate_disconnected"
            /\ UNCHANGED <<err, loc_formulae, loc_specs, disc_specs, disc_formulae>>
    /\ UNCHANGED <<obs_vars, sd_vars, args, igraph, prime_vars, result_vars>>

(***************************************************************************)
(* CompositeGenerator.generate_disconnected                                *)
(***************************************************************************)
\* a filter that lets the trivial partition through
GoodPartWithTrivial(c, x) ==
    /\ 1 \notin Range(x)
    /\ SetMax(Range(x)) <= c.nmax_avail

\* good_part: no 1s, no number > nmax_avail, not the trivial partition
GoodPart(c, x) ==
    /\ 1 \notin Range(x)
    /\ SetMax(Range(x)) <= c.nmax_avail
    /\ Len(x) > 1

\* n_parts.sort(key=len): a stable sort
SortByLen(parts, n) ==
    Flatten([L \in 1..n |->
                LET HasLen(x) == Len(x) = L IN SelectSeq(parts, HasLen)])

NParts(c, n) ==
    LET Good(x) == GoodPart(c, x)
    IN  SortByLen(SelectSeq(IntPartitionUnordered(n), Good), n)

\* d_parts: the partitions of d of the right length
DParts(d, len) ==
    LET RightLen(x) == Len(x) = len IN SelectSeq(IntPartitionUnordered(d), RightLen)

\* s without its i-th entry
Without(s, i) == SubSeq(s, 1, i - 1) \o SubSeq(s, i + 1, Len(s))

\* set(itertools.permutations(s)), and every order a set can be iterated in
RECURSIVE Orderings(_)
Orderings(s) ==
    IF s = << >> THEN {<< >>}
    ELSE UNION {{<< s[i] >> \o t : t \in Orderings(Without(s, i))} : i \in DOMAIN s}

RECURSIVE SetToSeq(_)
SetToSeq(S) ==
    IF S = {} THEN << >>
    ELSE LET x == CHOOSE y \in S : TRUE IN << x >> \o SetToSeq(S \ {x})

\* spec = tuple(sorted(zip(n_part_ord, d_part)))
MakeSpec(n_part_ord, d_part) ==
    Sorted([i \in 1..Min2(Len(n_part_ord), Len(d_part)) |-> <<n_part_ord[i], d_part[i]>>])

\* the check that there are primes for every pair of the spec
HavePrimes(c, spec) == \A i \in DOMAIN spec : spec[i] \in DOMAIN c.ks

\* the set specs of one pass of the loop over n_part (none when there are no
\* d_parts of the right length)
SpecsOf(c, d, n_part) ==
    {spec \in {MakeSpec(o, d_part) :
                  o \in Orderings(n_part), d_part \in Range(DParts(d, Len(n_part)))} :
        HavePrimes(c, spec)}

\* itertools.product(*[range(size) for size in sizes]) (ProductFrom: the
\* tuples whose first entry is >= k)
RECURSIVE Product(_)
RECURSIVE ProductFrom(_, _)
ProductFrom(sizes, k) ==
    IF k >= Head(sizes) THEN << >>
    ELSE PrependAll(k, Product(Tail(sizes))) \o ProductFrom(sizes, k + 1)

Product(sizes) == IF sizes = << >> THEN << << >> >> ELSE ProductFrom(sizes, 0)

\* kcount before the first formula of a spec
FirstK(c, n, d) == IF <<n, d>> \in DOMAIN c.ks THEN c.ks[<<n, d>>] ELSE 0

\* formula: the (n,d,k) of each factor
Formula(spec, kspec) ==
    [i \in 1..Min2(Len(spec), Len(kspec)) |-> <<spec[i][1], spec[i][2], kspec[i]>>]

\* a lookup of the prime row by the k of the factor
FactorRowByK(c, rows, ndk) == rows[ndk[3] + 1]

\* the prime row of a factor: self.c_specs[self.ndk2w[ndk]]
FactorRow(c, rows, ndk) == rows[c.ndk2w[ndk] + 1]

\* the row appended for one kspec
CompositeRow(c, rows, n, d, formula, kcount, kspec) ==
    [n |-> n,
     e |-> SetMax({0} \cup {FactorRow(c, rows, formula[i]).e : i \in DOMAIN formula}),
     d |-> d,
     v |-> SetMax({0} \cup {FactorRow(c, rows, formula[i]).v : i \in DOMAIN formula}),
     k |-> kcount,
     g |-> -1,
     w |-> -1,
     c |-> SetMax({0} \cup {FactorRow(c, rows, formula[i]).c : i \in DOMAIN formula}),
     p |-> Len(kspec)]

\* the loop over kspec for one spec: the formulae and the rows it appends
SpecRows(c, rows, n, d, spec) ==
    LET kspecs == Product([i \in DOMAIN spec |-> c.ks[spec[i]]])
    IN  [i \in DOMAIN kspecs |->
            LET formula == Formula(spec, kspecs[i])
            IN  [formula |-> Sorted(formula),
                 row |-> CompositeRow(c, rows, n, d, formula,
                                      FirstK(c, n, d) + i - 1, kspecs[i])]]

\* one pass of the loop over n_part, the set specs iterated in some order
CompositeBlock ==
    /\ pc = "generate_disconnected"
    /\ cpos.ni <= Len(comp.ns)
    /\ cpos.d <= comp.dmaxs[comp.ns[cpos.ni]]
    /\ \E n \in {comp.ns[cpos.ni]} :
        \E n_parts \in {NParts(comp, n)} :
          /\ cpos.pi <= Len(n_parts)
          /\ \E order \in Orderings(SetToSeq(SpecsOf(comp, cpos.d, n_parts[cpos.pi]))) :
               \E new \in {Flatten([i \in DOMAIN order |->
                                      SpecRows(comp, c_specs, n, cpos.d, order[i])])} :
                  /\ loc_formulae' = loc_formulae \o [i \in DOMAIN new |-> new[i].formula]
                  /\ loc_specs' = loc_specs \o [i \in DOMAIN new |-> new[i].row]
    /\ cpos' = [cpos EXCEPT !.pi = @ + 1]
    /\ UNCHANGED <<obs_vars, sd_vars, args, igraph, pc, err, prime_vars, result_vars, comp,
                   disc_specs, disc_formulae>>

\* the loop over d moves on
NextD ==
    /\ pc = "generate_disconnected"
    /\ cpos.ni <= Len(comp.ns)
    /\ cpos.d <= comp.dmaxs[comp.ns[cpos.ni]]
    /\ cpos.pi > Len(NParts(comp, comp.ns[cpos.ni]))
    /\ cpos' = [cpos EXCEPT !.d = @ + 1, !.pi = 1]
    /\ UNCHANGED <<obs_vars, sd_vars, args, igraph, pc, err, prime_vars, result_vars, comp,
                   loc_formulae, loc_specs, disc_specs, disc_formulae>>

\* the loop over n moves on
NextN ==
    /\ pc = "generate_disconnected"
    /\ cpos.ni <= Len(comp.ns)
    /\ cpos.d > comp.dmaxs[comp.ns[cpos.ni]]
    /\ cpos' = [ni |-> cpos.ni + 1,
                d  |-> IF cpos.ni + 1 <= Len(comp.ns)
                       THEN FirstD(comp.ns[cpos.ni + 1]) ELSE 0,
                pi |-> 1]
    /\ UNCHANGED <<obs_vars, sd_vars, args, igraph, pc, err, prime_vars, result_vars, comp,
                   loc_formulae, loc_specs, disc_specs, disc_formulae>>

\* a mask that keeps every formula
KeepAll(forms) == [i \in DOMAIN forms |-> TRUE]

\* mask: whether the formula at i was not met before i
Mask(forms) == [i \in DOMAIN forms |-> \A j \in 1..(i - 1) : forms[j] # forms[i]]

\* a[mask]
RECURSIVE Masked(_, _)
Masked(a, mask) ==
    IF a = << >> \/ mask = << >> THEN << >>
    ELSE (IF Head(mask) THEN << Head(a) >> ELSE << >>) \o Masked(Tail(a), Tail(mask))

\* the unique formulae are stored, and Generator.__init__ stores results()
CompositeFinish ==
    /\ pc = "generate_disconnected"
    /\ cpos.ni > Len(comp.ns)
    /\ disc_formulae' = Masked(loc_formulae, Mask(loc_formulae))
    /\ disc_specs' = Masked(loc_specs, Mask(loc_formulae))
    /\ pc' = "done"
    /\ UNCHANGED <<obs_vars, sd_vars, args, igraph, err, prime_vars, result_vars, comp, cpos,
                   loc_formulae, loc_specs>>

Next ==
    \/ PrimeInit
    \/ GenerateSimple
    \/ AddCandidate
    \/ NextBucket
    \/ SimpleDone
    \/ GenerateWeights
    \/ WeightGraph
    \/ NextWeightBucket
    \/ WeightsDone
    \/ Results
    \/ CompositeInit
    \/ CompositeBlock
    \/ NextD
    \/ NextN
    \/ CompositeFinish

\* Generator(dmax, ...)
Spec == Init /\ [][Next]_vars

\* PrimeGenerator(dmax, ...) and its results()
NextPrime ==
    \/ PrimeInit
    \/ GenerateSimple
    \/ AddCandidate
    \/ NextBucket
    \/ SimpleDone
    \/ GenerateWeights
    \/ WeightGraph
    \/ NextWeightBucket
    \/ WeightsDone
    \/ Results

SpecPrime == InitPrime /\ [][NextPrime]_vars

(***************************************************************************)
(* utils/fastjet_utils.py: softdrop(jet, zcut, beta, R).  The clustering   *)
(* history of the jet is read one jet at a time through has_parents, pt    *)
(* and delta_R; zcut is ZcutNum/ZcutDen, pt, delta_R and R are whole       *)
(* numbers of some unit, and the comparison of the floats is exact.        *)
(***************************************************************************)
MaxPt == 3
MaxDeltaR == 2
MaxR == 2
MaxBeta == 2
MaxDepth == 2
ZcutDen == 4

gen_vars == <<args, igraph, pc, err, prime_vars, result_vars, comp_vars>>

\* softdrop(jet, zcut, beta, R) is called on a jet
InitSoftdrop ==
    /\ args = << >> /\ igraph = FALSE /\ pc = "none"
    /\ NothingBuilt
    /\ sd_args \in [zcut : 0..ZcutDen, beta : 0..MaxBeta, R : 1..MaxR]
    /\ sd_jet = << >>
    /\ sd_chain = << >>
    /\ sd_pc = "call"
    /\ sd_ret = << >>
    /\ NoEvalFilters
    /\ NoEFP

RECURSIVE Pow(_, _)
Pow(b, e) == IF e = 0 THEN 1 ELSE b * Pow(b, e - 1)

\* z >= (zcut if beta == 0 else zcut * (delta_R/R)**beta), with
\* z = min(pt1, pt2)/(pt1 + pt2) and pt1 + pt2 > 0, cleared of fractions
AtLeastThreshold(a, pt1, pt2, dr) ==
    IF a.beta = 0
    THEN Min2(pt1, pt2) * ZcutDen >= a.zcut * (pt1 + pt2)
    ELSE Min2(pt1, pt2) * ZcutDen * Pow(a.R, a.beta)
            >= a.zcut * Pow(dr, a.beta) * (pt1 + pt2)

\* parent1 if pt1 >= pt2 else parent2
HarderParent(pt1, pt2) == IF pt1 >= pt2 THEN 1 ELSE 2

\* the call finds that the jet has no parents and returns it
SoftdropNoParents ==
    /\ sd_pc = "call"
    /\ sd_chain' = Append(sd_chain, [has |-> FALSE, pt1 |-> 0, pt2 |-> 0, dr |-> 0])
    /\ sd_ret' = sd_jet
    /\ sd_pc' = "returned"
    /\ UNCHANGED <<obs_vars, gen_vars, sd_args, sd_jet>>

\* the call finds two parents: it returns the jet or calls itself on the
\* harder parent
SoftdropParents ==
    /\ sd_pc = "call"
    /\ Len(sd_jet) < MaxDepth
    /\ \E pt1, pt2 \in 0..MaxPt, dr \in 0..MaxDeltaR :
          /\ sd_chain' = Append(sd_chain, [has |-> TRUE, pt1 |-> pt1, pt2 |-> pt2, dr |-> dr])
          /\ IF pt1 + pt2 = 0
             THEN sd_pc' = "error" /\ UNCHANGED <<sd_jet, sd_ret>>
             ELSE IF AtLeastThreshold(sd_args, pt1, pt2, dr)
             THEN sd_pc' = "returned" /\ sd_ret' = sd_jet /\ UNCHANGED sd_jet
             ELSE /\ sd_jet' = Append(sd_jet, HarderParent(pt1, pt2))
                  /\ UNCHANGED <<sd_pc, sd_ret>>
    /\ UNCHANGED <<obs_vars, gen_vars, sd_args>>

NextSoftdrop ==
    \/ SoftdropNoParents
    \/ SoftdropParents

SpecSoftdrop == InitSoftdrop /\ [][NextSoftdrop]_vars

(***************************************************************************)
(* archs/efn.py: EFN.eval_filters(patch, n, prune).  The local variables   *)
(* of the call are kept by name, so that a name never assigned is not      *)
(* there to be read; a grid coordinate is a pair <<numerator, denominator>>*)
(* and the network's filter values are an input: for each filter, whether  *)
(* it is nonzero somewhere on the grid.                                    *)
(***************************************************************************)
MaxPatch == 2
MaxPixels == 2
\* how many filters the network has, Phi_sizes[-1]
NumFilters == 2

\* patch: a single number, or a list of four numbers, or of two
PatchArgs ==
    {[kind |-> "number", val |-> v] : v \in (0 - MaxPatch)..MaxPatch}
    \cup {[kind |-> "list", val |-> <<x0, y0, x1, y1>>] :
             x0 \in {0 - MaxPatch, 0}, y0 \in {0 - MaxPatch, 0},
             x1 \in {MaxPatch}, y1 \in {1, MaxPatch}}
    \cup {[kind |-> "list", val |-> <<0 - MaxPatch, MaxPatch>>]}

\* n: an int, or a list of two ints
PixelArgs ==
    {[kind |-> "int", val |-> v] : v \in 1..MaxPixels}
    \cup {[kind |-> "list", val |-> <<a, b>>] : a, b \in 1..MaxPixels}

\* eval_filters(patch, n, prune) is called on a built EFN
InitEvalFilters ==
    /\ args = << >> /\ igraph = FALSE /\ pc = "none"
    /\ NothingBuilt
    /\ NoSoftdrop
    /\ NoEFP
    /\ ef_args \in [patch : PatchArgs, n : PixelArgs, prune : BOOLEAN]
    /\ ef_loc = << >>
    /\ ef_Z = << >>
    /\ ef_pc = "patch"
    /\ ef_err = "none"
    /\ ef_ret = << >>

\* the local variables with the names assigned the values, in turn
Bind(loc, names, values) ==
    [x \in (DOMAIN loc) \cup Range(names) |->
        IF x \in Range(names)
        THEN values[CHOOSE i \in DOMAIN names : names[i] = x]
        ELSE loc[x]]



\* the branch for patch <= 0: the ValueError is made and dropped
NotPositivePatch ==
    /\ ef_pc' = "pixels"
    /\ UNCHANGED <<ef_loc, ef_err>>

\* determine patch of xy space to evaluate filters on
EvalPatch ==
    /\ ef_pc = "patch"
    /\ IF ef_args.patch.kind = "number"
       THEN IF ef_args.patch.val > 0
            THEN /\ ef_loc' = Bind(ef_loc, <<"xmin", "ymin", "xmax", "ymax">>,
                                   <<0 - ef_args.patch.val, 0 - ef_args.patch.val,
                                     ef_args.patch.val, ef_args.patch.val>>)
                 /\ ef_pc' = "pixels"
                 /\ UNCHANGED ef_err
            ELSE NotPositivePatch
       ELSE IF Len(ef_args.patch.val) = 4
            THEN /\ ef_loc' = Bind(ef_loc, <<"xmin", "ymin", "xmax", "ymax">>,
                                   ef_args.patch.val)
                 /\ ef_pc' = "pixels"
                 /\ UNCHANGED ef_err
            ELSE /\ ef_pc' = "error"
                 /\ ef_err' = "ValueError: values to unpack"
                 /\ UNCHANGED ef_loc
    /\ UNCHANGED <<gen_vars, sd_vars, efp_vars, ef_args, ef_Z, ef_ret>>

\* determine number of pixels in each dimension
EvalPixels ==
    /\ ef_pc = "pixels"
    /\ IF ef_args.n.kind = "int"
       THEN /\ ef_loc' = Bind(ef_loc, <<"nx", "ny">>, <<ef_args.n.val, ef_args.n.val>>)
            /\ ef_pc' = "grid"
            /\ UNCHANGED ef_err
       ELSE IF Len(ef_args.n.val) = 2
            THEN /\ ef_loc' = Bind(ef_loc, <<"nx", "ny">>, ef_args.n.val)
                 /\ ef_pc' = "grid"
                 /\ UNCHANGED ef_err
            ELSE /\ ef_pc' = "error"
                 /\ ef_err' = "ValueError: values to unpack"
                 /\ UNCHANGED ef_loc
    /\ UNCHANGED <<gen_vars, sd_vars, efp_vars, ef_args, ef_Z, ef_ret>>

\* np.linspace(lo, hi, num): num points from lo to hi, ends included
Linspace(lo, hi, num) ==
    [i \in 1..num |->
        IF num = 1 THEN <<lo, 1>>
        ELSE <<lo * (num - 1) + (i - 1) * (hi - lo), num - 1>>]

\* np.asarray([X, Y]).reshape((2, nx*ny)).T for X, Y = meshgrid(xs, ys, 'ij')
GridPoints(xs, ys) ==
    Flatten([i \in DOMAIN xs |-> [j \in DOMAIN ys |-> <<xs[i], ys[j]>>]])

\* construct grid of inputs
EvalGrid ==
    /\ ef_pc = "grid"
    /\ IF {"xmin", "xmax", "ymin", "ymax"} \subseteq DOMAIN ef_loc
       THEN /\ \E xs \in {Linspace(ef_loc["xmin"], ef_loc["xmax"], ef_loc["nx"])},
                  ys \in {Linspace(ef_loc["ymin"], ef_loc["ymax"], ef_loc["ny"])} :
                  ef_loc' = Bind(ef_loc, <<"xs", "ys", "XY">>,
                                 <<xs, ys, GridPoints(xs, ys)>>)
            /\ ef_pc' = "kf"
            /\ UNCHANGED ef_err
       ELSE /\ ef_pc' = "error"
            /\ ef_err' = "UnboundLocalError: local variable 'xmin' referenced before assignment"
            /\ UNCHANGED ef_loc
    /\ UNCHANGED <<gen_vars, sd_vars, efp_vars, ef_args, ef_Z, ef_ret>>

\* construct the function kf and evaluate it on the grid
EvalKf ==
    /\ ef_pc = "kf"
    /\ ef_Z' \in [1..NumFilters -> BOOLEAN]
    /\ ef_pc' = "prune"
    /\ UNCHANGED <<gen_vars, sd_vars, efp_vars, ef_args, ef_loc, ef_err, ef_ret>>

\* Z[[not (z == 0).all() for z in Z]]: the filters that are not all zero
RECURSIVE Pruned(_, _)
Pruned(Z, f) ==
    IF f > Len(Z) THEN << >>
    ELSE (IF Z[f] THEN <<f>> ELSE << >>) \o Pruned(Z, f + 1)

\* prune filters that are off, and return
EvalPrune ==
    /\ ef_pc = "prune"
    /\ ef_ret' = IF ef_args.prune THEN Pruned(ef_Z, 1) ELSE RangeSeq(1, Len(ef_Z) + 1)
    /\ ef_pc' = "returned"
    /\ UNCHANGED <<gen_vars, sd_vars, efp_vars, ef_args, ef_loc, ef_Z, ef_err>>

NextEvalFilters ==
    \/ EvalPatch
    \/ EvalPixels
    \/ EvalGrid
    \/ EvalKf
    \/ EvalPrune

SpecEvalFilters == InitEvalFilters /\ [][NextEvalFilters]_vars

(***************************************************************************)
(* observables/efp.py: EFP(edges, measure, ...) and its property c.  The   *)
(* attributes assigned to the object are kept by name, so that one never   *)
(* assigned is not there to be read.  EFPBase.__init__ sets use_efms from  *)
(* the measure; the call is drawn with the value it gets.                  *)
(***************************************************************************)
MaxEfpN == 3
MaxEfpEdges == 3

\* the vertices an edge list names
VerticesOf(edgs) == UNION {{edgs[i][1], edgs[i][2]} : i \in DOMAIN edgs}

\* the edge lists a caller may pass: multigraphs on the vertices 0..n-1
EfpEdgeLists ==
    {edgs \in UNION {[1..len -> Range(BaseEdges(MaxEfpN))] : len \in 1..MaxEfpEdges} :
        VerticesOf(edgs) = 0..(Cardinality(VerticesOf(edgs)) - 1)}

\* the edges of the list without the repeats, each at its first place
RECURSIVE SimpleEdges(_)
SimpleEdges(edgs) ==
    IF edgs = << >> THEN << >>
    ELSE LET front == SimpleEdges(SubSeq(edgs, 1, Len(edgs) - 1))
             last  == edgs[Len(edgs)]
         IN  IF last \in Range(front) THEN front ELSE Append(front, last)

\* EFPElem(edges): the edges, their count d, the vertex count n and the
\* simple edges
EFPElem(edgs) ==
    [edges        |-> edgs,
     d            |-> Len(edgs),
     n            |-> Cardinality(VerticesOf(edgs)),
     simple_edges |-> SimpleEdges(edgs)]

\* efp_as_efms(graph): one moment per vertex, of as many indices as edge ends
\* at the vertex
EfpAsEfms(edgs) ==
    [v \in 1..Cardinality(VerticesOf(edgs)) |->
        Cardinality({i \in DOMAIN edgs : (v - 1) \in {edgs[i][1], edgs[i][2]}})]

\* EFP(edges, measure) is called
InitEFP ==
    /\ args = << >> /\ igraph = FALSE /\ pc = "none"
    /\ NothingBuilt
    /\ NoSoftdrop
    /\ NoEvalFilters
    /\ efp_args \in [edges : EfpEdgeLists, use_efms : BOOLEAN]
    /\ efp_self = << >>
    /\ efp_pc = "new"
    /\ efp_err = "none"
    /\ efp_ret = << >>

\* EFP.__init__: the EFPElem, then the moments in EFM mode and the variable
\* elimination otherwise
EFPInit ==
    /\ efp_pc = "new"
    /\ \E elem \in {EFPElem(efp_args.edges)} :
          IF efp_args.use_efms
          THEN \E specs \in {EfpAsEfms(elem.edges)} :
                  efp_self' = [efpelem     |-> elem,
                               efm_einstr  |-> elem.edges,
                               efm_specs   |-> specs,
                               efms        |-> Range(specs),
                               efm_einpath |-> RangeSeq(0, Len(specs)),
                               pow2        |-> Pow(2, elem.d)]
          ELSE \E run \in {VeRun(elem.simple_edges, elem.n)} :
                  efp_self' = [efpelem |-> [edges |-> elem.edges, d |-> elem.d,
                                            n |-> elem.n,
                                            simple_edges |-> elem.simple_edges,
                                            einstr |-> Einspecs(run)[1],
                                            einpath |-> Einspecs(run)[2]],
                               ve      |-> [chi |-> run.chi]]
    /\ efp_pc' = "built"
    /\ UNCHANGED <<gen_vars, sd_vars, ef_vars, efp_args, efp_err, efp_ret>>

\* the property c: self.ve is read, then hasattr(self.ve, 'chi')
ReadC ==
    /\ efp_pc = "built"
    /\ IF "ve" \notin DOMAIN efp_self
       THEN /\ efp_pc' = "error"
            /\ efp_err' = "AttributeError: 'EFP' object has no attribute 've'"
            /\ UNCHANGED efp_ret
       ELSE /\ efp_pc' = "read"
            /\ efp_ret' = IF "chi" \in DOMAIN efp_self.ve
                          THEN [kind |-> "int", val |-> efp_self.ve.chi]
                          ELSE [kind |-> "None"]
            /\ UNCHANGED efp_err
    /\ UNCHANGED <<gen_vars, sd_vars, ef_vars, efp_args, efp_self>>

NextEFP ==
    \/ EFPInit
    \/ ReadC

SpecEFP == InitEFP /\ [][NextEFP]_vars

(***************************************************************************)
(* Generator called with budgets that let a simple graph with more edges   *)
(* than dmax be stored before graphs with more vertices: nmax and emax one *)
(* above the bounds of the other calls.                                    *)
(***************************************************************************)
LookupArgs ==
    [dmax : 1..MaxDmax,
     nmax : {None, {MaxN + 1}},
     emax : {None, {MaxEmax + 1}},
     cmax : {None},
     vmax : {None},
     comp_dmaxs : {NoDmaxs}]

\* the calls of Init and those with the larger budgets
InitLookup ==
    InitWith(LookupArgs \cup
             {a \in ArgSets : EffectiveNmax(a) <= MaxN /\ NumGiven(a) <= MaxGiven})

SpecLookup == InitLookup /\ [][Next]_vars

(***************************************************************************)
(* Properties of PrimeGenerator.                                           *)
(***************************************************************************)
\* some relabelling of the vertices maps the edges of g1 onto those of g2
SameShape(g1, g2) ==
    /\ g1.n = g2.n
    /\ \E p \in Perms[g1.n] :
          {{p[x] : x \in e} : e \in EdgeSet(g1)} = EdgeSet(g2)

\* C1: at every moment of generate_simple and after it, so after every call
\* of _add_if_new, no two distinct graphs stored in one bucket (n,e) are
\* isomorphic
C1_NoIsomorphicPairInBucket ==
    \A ne \in DOMAIN simple_graphs_d :
        \A i, j \in DOMAIN simple_graphs_d[ne] :
            i # j => ~SameShape(simple_graphs_d[ne][i], simple_graphs_d[ne][j])

\* a bucket holds two graphs, and _add_if_new was handed a further candidate
\* for it that is isomorphic to one of them without being the same graph
C1_Witness ==
    /\ pc = "simple_loop"
    /\ bi <= Len(BucketSeq(self))
    /\ Len(simple_graphs_d[BucketSeq(self)[bi]]) >= 2
    /\ \E c \in 1..(ci - 1), k \in DOMAIN simple_graphs_d[BucketSeq(self)[bi]] :
          /\ Candidates(BucketSeq(self)[bi])[c] # simple_graphs_d[BucketSeq(self)[bi]][k]
          /\ SameShape(Candidates(BucketSeq(self)[bi])[c],
                       simple_graphs_d[BucketSeq(self)[bi]][k])

\* an automorphism of g maps every edge to an edge that w2 gives the weight
\* w1 gives the edge
ColourRelated(g, w1, w2) ==
    \E p \in Perms[g.n] :
        /\ {{p[x] : x \in e} : e \in EdgeSet(g)} = EdgeSet(g)
        /\ \A i \in DOMAIN g.el :
              \E j \in DOMAIN g.el : /\ Ends(g, j) = {p[x] : x \in Ends(g, i)}
                                     /\ w1[i] = w2[j]

\* C2: no two distinct weightings kept for a simple graph are related by an
\* automorphism of the graph that maps each edge to an edge of equal weight
C2_NoRelatedWeightings ==
    \A ne \in DOMAIN weights_d :
        \A g \in DOMAIN weights_d[ne] :
            g \in DOMAIN simple_graphs_d[ne] =>
                \A i, j \in DOMAIN weights_d[ne][g] :
                    i # j => ~ColourRelated(simple_graphs_d[ne][g],
                                            weights_d[ne][g][i], weights_d[ne][g][j])

\* a graph of three or more vertices has two weightings kept and a further
\* one, within the valency budget, dropped as related to a kept one
C2_Witness ==
    \E ne \in DOMAIN weights_d :
        /\ ne[1] >= 3
        /\ \E g \in DOMAIN weights_d[ne] :
              /\ Len(weights_d[ne][g]) >= 2
              /\ \E part \in Range(PartsFor(self, ne)) :
                    /\ ~WeightedValencyTooLarge(self, simple_graphs_d[ne][g], part)
                    /\ part \notin Range(weights_d[ne][g])
                    /\ \E k \in DOMAIN weights_d[ne][g] :
                          ColourRelated(simple_graphs_d[ne][g], weights_d[ne][g][k], part)

\* C3: in every row of the prime table, d is the sum of the weighting at
\* index w of the weights list, that weighting has e entries, each at least
\* 1, and d >= e
C3_DegreeIsSumOfWeights ==
    \A i \in DOMAIN c_specs :
        /\ (c_specs[i].w + 1) \in DOMAIN weights
        /\ c_specs[i].d = SumSeq(weights[c_specs[i].w + 1])
        /\ Len(weights[c_specs[i].w + 1]) = c_specs[i].e
        /\ \A j \in DOMAIN weights[c_specs[i].w + 1] : weights[c_specs[i].w + 1][j] >= 1
        /\ c_specs[i].d >= c_specs[i].e

\* results() returned a row of a graph with several edges, one of them of
\* weight two or more
C3_Witness ==
    \E i \in DOMAIN c_specs :
        /\ c_specs[i].e >= 2
        /\ c_specs[i].d > c_specs[i].e
        /\ c_specs[i].p = 1


(***************************************************************************)
(* Properties of CompositeGenerator and of the whole Generator.            *)
(***************************************************************************)
\* the place of the first occurrence of formula f in the enumeration
FirstPlace(f) == CHOOSE i \in DOMAIN loc_formulae :
                    loc_formulae[i] = f /\ \A j \in 1..(i - 1) : loc_formulae[j] # f

\* C4: the composite table holds no sorted formula twice; of a formula that
\* the enumeration produced several times the first occurrence is kept, in
\* the order of the enumeration, with the row produced with it, so disc_specs
\* and disc_formulae are aligned row by row
C4_UniqueFormulae ==
    pc = "done" =>
        /\ Len(disc_specs) = Len(disc_formulae)
        /\ \A i, j \in DOMAIN disc_formulae : i # j => disc_formulae[i] # disc_formulae[j]
        /\ Range(disc_formulae) = Range(loc_formulae)
        /\ \A i \in DOMAIN disc_formulae :
              /\ disc_specs[i] = loc_specs[FirstPlace(disc_formulae[i])]
              /\ \A j \in DOMAIN disc_formulae :
                    i < j => FirstPlace(disc_formulae[i]) < FirstPlace(disc_formulae[j])

\* the enumeration produced a formula twice, with rows that differ, and
\* other formulae after it
C4_Witness ==
    /\ pc = "done"
    /\ \E i, j \in DOMAIN loc_formulae :
          /\ i < j
          /\ loc_formulae[i] = loc_formulae[j]
          /\ loc_specs[i] # loc_specs[j]
          /\ j < Len(loc_formulae)
    /\ Len(disc_formulae) >= 2

\* Generator(dmax=2) with every other budget at its default
Dmax2Defaults ==
    [dmax |-> 2, nmax |-> None, emax |-> None, cmax |-> None, vmax |-> None,
     comp_dmaxs |-> NoDmaxs]

\* the (n, e, d) of the rows of a table
Ned(rows) == [i \in DOMAIN rows |-> <<rows[i].n, rows[i].e, rows[i].d>>]

\* C5 as stated: Generator(dmax=2) gives exactly two prime rows, of the single
\* edge with d=1 and d=2, and no composite row
C5_TwoPrimesNoComposite ==
    (pc = "done" /\ args = Dmax2Defaults) =>
        /\ Ned(c_specs) = << <<2, 1, 1>>, <<2, 1, 2>> >>
        /\ disc_specs = << >>

\* C5 amended: Generator(dmax=2) gives exactly three prime rows, of the single
\* edge with d=1 and d=2 and of the path on three vertices with d=2, and
\* exactly one composite row, n=4 and d=2, the product of two single edges
\* with d=1
C5_ThreePrimesOneComposite ==
    (pc = "done" /\ args = Dmax2Defaults) =>
        /\ Ned(c_specs) = << <<2, 1, 1>>, <<2, 1, 2>>, <<3, 2, 2>> >>
        /\ weights = << <<1>>, <<2>>, <<1, 1>> >>
        /\ Ned(disc_specs) = << <<4, 1, 2>> >>
        /\ disc_formulae = << << <<2, 1, 0>>, <<2, 1, 0>> >> >>

\* Generator(dmax=2) has returned
C5_Witness ==
    /\ pc = "done"
    /\ args = Dmax2Defaults
    /\ Len(c_specs) + Len(disc_specs) = 4

\* the budgets of a call, the defaults read off the arguments
BudgetN(a) == IF a.nmax # None THEN Given(a.nmax) ELSE a.dmax + 1
BudgetE(a) == IF a.emax # None THEN Given(a.emax) ELSE a.dmax
BudgetC(a) == IF a.cmax # None THEN Given(a.cmax) ELSE BudgetN(a)
BudgetV(a) == IF a.vmax # None THEN Given(a.vmax) ELSE a.dmax

\* C6: every prime row keeps within the five budgets: n <= nmax, e <= emax,
\* d <= dmax, c <= cmax and v <= vmax, the budgets left out being nmax=dmax+1,
\* emax=dmax, cmax=nmax, vmax=dmax
C6_RowsWithinBudgets ==
    \A i \in DOMAIN c_specs :
        /\ c_specs[i].n <= BudgetN(args)
        /\ c_specs[i].e <= BudgetE(args)
        /\ c_specs[i].d <= args.dmax
        /\ c_specs[i].c <= BudgetC(args)
        /\ c_specs[i].v <= BudgetV(args)

\* a row meets all five budgets at once, cmax and vmax being given and tight
\* enough to have turned a graph away
C6_Witness ==
    /\ args.cmax # None
    /\ args.vmax # None
    /\ BudgetC(args) < BudgetN(args)
    /\ BudgetV(args) < BudgetN(args) - 1
    /\ \E i \in DOMAIN c_specs :
          /\ c_specs[i].n = BudgetN(args)
          /\ c_specs[i].e = BudgetE(args)
          /\ c_specs[i].d = args.dmax
          /\ c_specs[i].c = BudgetC(args)
          /\ c_specs[i].v = BudgetV(args)

\* the largest sum of the weights of the edges at one vertex, for the graph
\* and the weighting of a prime row
WeightedValency(row) ==
    SetMax({SumSeq([j \in DOMAIN edges[row.g + 1] |->
                        IF v \in {edges[row.g + 1][j][1], edges[row.g + 1][j][2]}
                        THEN weights[row.w + 1][j] ELSE 0]) :
            v \in 0..(row.n - 1)})

C7_HoldsFromThreeVertices ==
    \A i \in DOMAIN c_specs :
        c_specs[i].n >= 3 => WeightedValency(c_specs[i]) <= BudgetV(args)

\* the (n, d, k) of the rows of the full table, prime rows first
FullTable == c_specs \o disc_specs

\* C8: no two rows of the full table of a Generator have the same (n, d, k)
C8_UniqueNdk ==
    pc = "done" =>
        \A i, j \in DOMAIN FullTable :
            i # j => <<FullTable[i].n, FullTable[i].d, FullTable[i].k>>
                     # <<FullTable[j].n, FullTable[j].d, FullTable[j].k>>

\* k is unique among the prime rows of a fixed (n, d)
C8_UniqueAmongPrimes ==
    \A i, j \in DOMAIN c_specs :
        i # j => <<c_specs[i].n, c_specs[i].d, c_specs[i].k>>
                 # <<c_specs[j].n, c_specs[j].d, c_specs[j].k>>

\* C9: every prime row has p = 1; every composite row has g = w = -1, p the
\* number of (n,d,k) triples of its formula and at least 2, n the sum of the
\* n_i and d the sum of the d_i of the formula, each n_i at least 2 and at
\* most the largest n of the prime rows
C9_RowShapes ==
    /\ \A i \in DOMAIN c_specs : c_specs[i].p = 1
    /\ pc = "done" =>
          \A i \in DOMAIN disc_specs :
              /\ disc_specs[i].g = -1
              /\ disc_specs[i].w = -1
              /\ disc_specs[i].p = Len(disc_formulae[i])
              /\ disc_specs[i].p >= 2
              /\ disc_specs[i].n = SumSeq([j \in DOMAIN disc_formulae[i] |->
                                              disc_formulae[i][j][1]])
              /\ disc_specs[i].d = SumSeq([j \in DOMAIN disc_formulae[i] |->
                                              disc_formulae[i][j][2]])
              /\ \A j \in DOMAIN disc_formulae[i] :
                    /\ disc_formulae[i][j][1] >= 2
                    /\ \E r \in DOMAIN c_specs : disc_formulae[i][j][1] <= c_specs[r].n

\* the table holds a composite of three factors and one whose factors differ
\* in n
C9_Witness ==
    /\ pc = "done"
    /\ \E i \in DOMAIN disc_specs : disc_specs[i].p = 3
    /\ \E i \in DOMAIN disc_specs :
          disc_formulae[i][1][1] # disc_formulae[i][Len(disc_formulae[i])][1]

\* where the constructor stands once generate_weights has started
WeightsStarted == pc \in {"generate_weights", "weights_loop", "results", "composite_init"}

\* C10: generate_weights starts only when the loops of generate_simple are
\* through, and from then on the constructor never goes back to
\* generate_simple and no simple-graph container changes
C10_PhasesInOrder ==
    [][/\ (pc # "generate_weights" /\ pc' = "generate_weights")
            => (pc = "simple_loop" /\ bi > Len(BucketSeq(self)))
       /\ WeightsStarted
            => /\ simple_vars' = simple_vars
               /\ pc' \notin {"new", "generate_simple", "simple_loop"}]_vars

\* generate_weights has weighted a graph of a bucket that holds several
C10_Witness ==
    /\ pc = "weights_loop"
    /\ wi <= Len(BucketSeq(self))
    /\ gi > 1
    /\ Len(simple_graphs_d[BucketSeq(self)[wi]]) >= 2
    /\ weights_d[BucketSeq(self)[wi]] # << >>

\* the formulae one pass of the loop over n_part appends when the set specs
\* is iterated in the given order
PassFormulae(order) ==
    LET new == Flatten([i \in DOMAIN order |->
                          SpecRows(comp, c_specs, comp.ns[cpos.ni], cpos.d, order[i])])
    IN  [i \in DOMAIN new |-> new[i].formula]

\* C11: the tables do not depend on the order in which the sets of
\* generate_disconnected are iterated: what a pass of the loop over n_part
\* appends to the formula table is the same for every order of the set specs
C11_SetOrderIndependent ==
    [][(pc = "generate_disconnected" /\ cpos' # cpos /\ cpos'.pi = cpos.pi + 1)
          => \A order \in Orderings(SetToSeq(SpecsOf(comp, cpos.d,
                                        NParts(comp, comp.ns[cpos.ni])[cpos.pi]))) :
                loc_formulae' = loc_formulae \o PassFormulae(order)]_vars

\* C12: without igraph the constructor ends in NotImplementedError with no
\* budget stored, no container created and no graph generated
C12_NothingBuiltWithoutIgraph ==
    ~igraph =>
        /\ pc \in {"new", "error"}
        /\ pc = "error" => err = "NotImplementedError"
        /\ self = << >>
        /\ ve = << >>
        /\ simple_graphs_d = << >> /\ edges_d = << >> /\ chis_d = << >>
        /\ vs_d = << >> /\ einpaths_d = << >> /\ einstrs_d = << >>
        /\ weights_d = << >>
        /\ c_specs = << >> /\ disc_specs = << >>

\* the constructor was called without igraph and has raised
C12_Witness ==
    /\ ~igraph
    /\ pc = "error"
    /\ err = "NotImplementedError"

\* the condition of the docstring on the parents of a jet:
\* min(pt1,pt2)/(pt1+pt2) > zcut*(DeltaR12/R)^beta, zcut alone when beta = 0
SoftDropCondition(a, c) ==
    Min2(c.pt1, c.pt2) * ZcutDen * (IF a.beta = 0 THEN 1 ELSE Pow(a.R, a.beta))
        > a.zcut * (IF a.beta = 0 THEN 1 ELSE Pow(c.dr, a.beta)) * (c.pt1 + c.pt2)

\* C13: softdrop returns the first jet, on the chain from the jet given to
\* the harder parent each time, that has no parents or whose parents meet
\* the strict condition; parents at exactly the threshold do not meet it
C13_FirstJetMeetingCondition ==
    sd_pc = "returned" =>
        /\ Len(sd_chain) = Len(sd_ret) + 1
        /\ \/ ~sd_chain[Len(sd_chain)].has
           \/ SoftDropCondition(sd_args, sd_chain[Len(sd_chain)])
        /\ \A i \in 1..Len(sd_ret) :
              /\ sd_chain[i].has
              /\ ~SoftDropCondition(sd_args, sd_chain[i])
              /\ sd_chain[i].pt1 > sd_chain[i].pt2 => sd_ret[i] = 1
              /\ sd_chain[i].pt2 > sd_chain[i].pt1 => sd_ret[i] = 2

\* the (n,d,k) of the prime rows
PrimeTriples == {<<c_specs[i].n, c_specs[i].d, c_specs[i].k>> : i \in DOMAIN c_specs}

\* the multisets of len prime rows, each as the sorted tuple of its (n,d,k),
\* whose n sum to at most nmost and whose d sum to at most dmost
RECURSIVE PrimeMultisets(_, _, _)
PrimeMultisets(len, nmost, dmost) ==
    IF len = 0 THEN {<< >>}
    ELSE {Append(st[1], st[2]) :
            st \in {x \in PrimeMultisets(len - 1, nmost, dmost) \X PrimeTriples :
                      /\ x[1] = << >> \/ ~LexLess(x[2], x[1][Len(x[1])])
                      /\ SumSeq([j \in DOMAIN x[1] |-> x[1][j][1]]) + x[2][1] <= nmost
                      /\ SumSeq([j \in DOMAIN x[1] |-> x[1][j][2]]) + x[2][2] <= dmost}}

\* C14: for every multiset of two or more prime rows whose n sum to a target
\* n and whose d sum to at most dmaxs[n], the composite table has exactly one
\* row with that multiset as its formula
C14_CompositeComplete ==
    (pc = "done" /\ DOMAIN comp.dmaxs # {}) =>
        LET nmost == SetMax(DOMAIN comp.dmaxs)
            dmost == SetMax({comp.dmaxs[n] : n \in DOMAIN comp.dmaxs})
        IN  \A len \in 2..(nmost \div 2) :
                \A f \in PrimeMultisets(len, nmost, dmost) :
                    LET n == SumSeq([j \in DOMAIN f |-> f[j][1]])
                        d == SumSeq([j \in DOMAIN f |-> f[j][2]])
                    IN  (n \in DOMAIN comp.dmaxs /\ d <= comp.dmaxs[n])
                            => Cardinality({i \in DOMAIN disc_formulae :
                                               disc_formulae[i] = f}) = 1

\* Generator(dmax=4, nmax=4) has returned with the four composites of two
\* single edges on n=4, for d=2, 3 and 4, and with composites of primes that
\* share their (n,d)
C14_Witness ==
    /\ pc = "done"
    /\ args.dmax = 4 /\ args.nmax = {4} /\ args.comp_dmaxs = NoDmaxs
    /\ {<< <<2, 1, 0>>, <<2, 1, 0>> >>, << <<2, 1, 0>>, <<2, 2, 0>> >>,
        << <<2, 1, 0>>, <<2, 3, 0>> >>, << <<2, 2, 0>>, <<2, 2, 0>> >>}
          \subseteq Range(disc_formulae)
    /\ \E i \in DOMAIN disc_formulae : \E j \in DOMAIN disc_formulae[i] :
          disc_formulae[i][j][3] >= 1

\* the pairs (i, j), i < j, of the vertices 0..n-1
AllPairs(n) == {p \in (0..(n - 1)) \X (0..(n - 1)) : p[1] < p[2]}

\* the vertices reached from those of S along the edges P
RECURSIVE ReachedFrom(_, _)
ReachedFrom(S, P) ==
    LET T == S \cup {p[1] : p \in {q \in P : q[2] \in S}}
                 \cup {p[2] : p \in {q \in P : q[1] \in S}}
    IN  IF T = S THEN S ELSE ReachedFrom(T, P)

\* the graph on 0..n-1 with the edges P is connected
ConnectedPairs(n, P) == ReachedFrom({0}, P) = 0..(n - 1)

\* its largest vertex degree
MaxDegreePairs(n, P) ==
    SetMax({Cardinality({p \in P : p[1] = v \/ p[2] = v}) : v \in 0..(n - 1)})

\* what _add_if_new was handed for a bucket
Handed(ne) == IF ne = <<2, 1>> THEN << Full2 >> ELSE Candidates(ne)

\* cmax turned no candidate away: every graph handed to _add_if_new that is
\* not isomorphic to a stored one has chi <= cmax
CmaxRejectsNone ==
    \A ne \in DOMAIN simple_graphs_d :
        \A c \in Range(Handed(ne)) :
            \/ \E k \in DOMAIN simple_graphs_d[ne] : SameShape(c, simple_graphs_d[ne][k])
            \/ VeRun(c.el, ne[1]).chi <= self.cmax

\* C15: when cmax rejects no candidate, after generate_simple every connected
\* simple graph with n vertices, e edges and maximum degree <= vmax, for each
\* bucket (n,e), is isomorphic to a graph stored in the bucket
C15_SimpleSearchComplete ==
    (pc = "generate_weights" /\ CmaxRejectsNone) =>
        \A ne \in DOMAIN simple_graphs_d :
            \A P \in SUBSET AllPairs(ne[1]) :
                (/\ Cardinality(P) = ne[2]
                 /\ ConnectedPairs(ne[1], P)
                 /\ MaxDegreePairs(ne[1], P) <= self.vmax)
                    => \E k \in DOMAIN simple_graphs_d[ne] :
                          SameShape([n |-> ne[1], el |-> SetToSeq(P)],
                                    simple_graphs_d[ne][k])

\* generate_simple has ended with cmax rejecting nothing and vmax = 2 having
\* turned away the star and the triangle with a tail, so that the buckets
\* (4,3) and (4,4) hold the path and the cycle alone
C15_Witness ==
    /\ pc = "generate_weights"
    /\ CmaxRejectsNone
    /\ self.vmax = 2
    /\ <<4, 4>> \in DOMAIN simple_graphs_d
    /\ Len(simple_graphs_d[<<4, 3>>]) = 1
    /\ Len(simple_graphs_d[<<4, 4>>]) = 1
    /\ Len(simple_graphs_d[<<3, 3>>]) = 1

\* the assignments of positive integer weights to e edges that sum to d
WeightAssignments(e, d) == {w \in [1..e -> 1..d] : SumSeq(w) = d}

\* the largest sum of the weights w of the edges of g at one vertex
MaxWeightedDegree(g, w) ==
    SetMax({SumSeq([j \in DOMAIN g.el |-> IF v \in Ends(g, j) THEN w[j] ELSE 0]) :
            v \in 0..(g.n - 1)})

\* C16: after generate_weights, for every stored graph with n >= 3 and e
\* edges and every d from e to dmax, every assignment of positive weights to
\* the edges that sums to d and has maximum weighted degree <= vmax is
\* related, by an automorphism that preserves the weights, to a weighting
\* kept for the graph
C16_WeightingSearchComplete ==
    pc = "results" =>
        \A ne \in DOMAIN simple_graphs_d :
            ne[1] >= 3 =>
                \A g \in DOMAIN simple_graphs_d[ne] :
                    \A d \in ne[2]..self.dmax :
                        \A w \in WeightAssignments(ne[2], d) :
                            MaxWeightedDegree(simple_graphs_d[ne][g], w) <= self.vmax
                                => \E k \in DOMAIN weights_d[ne][g] :
                                      ColourRelated(simple_graphs_d[ne][g],
                                                    weights_d[ne][g][k], w)

\* generate_weights has ended with a graph of three or more vertices for
\* which vmax turned a weighting away and an automorphism another
C16_Witness ==
    /\ pc = "results"
    /\ self.vmax < self.dmax
    /\ \E ne \in DOMAIN simple_graphs_d :
          /\ ne[1] >= 3
          /\ \E g \in DOMAIN simple_graphs_d[ne] :
                /\ \E d \in ne[2]..self.dmax : \E w \in WeightAssignments(ne[2], d) :
                      MaxWeightedDegree(simple_graphs_d[ne][g], w) > self.vmax
                /\ \E d \in ne[2]..self.dmax : \E w \in WeightAssignments(ne[2], d) :
                      /\ MaxWeightedDegree(simple_graphs_d[ne][g], w) <= self.vmax
                      /\ w \notin Range(weights_d[ne][g])
                /\ Len(weights_d[ne][g]) >= 2

\* the prime rows named by the (n,d,k) triples of a formula
NamedPrimes(formula) ==
    {r \in Range(c_specs) : <<r.n, r.d, r.k>> \in Range(formula)}

\* C17: in every composite row e, v and c are the maxima of the e, the v and
\* the c of the prime rows that the (n,d,k) of its formula name, each triple
\* naming one prime row
C17_MaximaOverFactors ==
    pc = "done" =>
        \A i \in DOMAIN disc_specs :
            /\ \A j \in DOMAIN disc_formulae[i] :
                  Cardinality({r \in DOMAIN c_specs :
                                  <<c_specs[r].n, c_specs[r].d, c_specs[r].k>>
                                      = disc_formulae[i][j]}) = 1
            /\ disc_specs[i].e = SetMax({r.e : r \in NamedPrimes(disc_formulae[i])})
            /\ disc_specs[i].v = SetMax({r.v : r \in NamedPrimes(disc_formulae[i])})
            /\ disc_specs[i].c = SetMax({r.c : r \in NamedPrimes(disc_formulae[i])})

\* a composite row has factors that differ in e, in v and in c, and a factor
\* whose k is not its place in the prime table
C17_Witness ==
    /\ pc = "done"
    /\ \E i \in DOMAIN disc_specs :
          /\ \E r1, r2 \in NamedPrimes(disc_formulae[i]) :
                r1.e < r2.e /\ r1.v < r2.v /\ r1.c < r2.c
          /\ \E r \in NamedPrimes(disc_formulae[i]) : r.k # r.w

\* the step is the first call of _add_if_new, on the single edge
FirstCall == pc = "generate_simple" /\ pc' # "generate_simple"

\* the step is a call of _add_if_new from the loops of generate_simple
LoopCall == pc = "simple_loop" /\ ci' = ci + 1

\* the graph and the bucket of the call
CallGraph == IF pc = "generate_simple" THEN Full2 ELSE Candidates(BucketSeq(self)[bi])[ci]
CallBucket == IF pc = "generate_simple" THEN <<2, 1>> ELSE BucketSeq(self)[bi]

\* the candidate is one to reject: isomorphic to a graph of the bucket, or
\* chi > cmax, or maximum degree > vmax
RejectedCandidate(g, ne) ==
    \/ /\ ne \in DOMAIN simple_graphs_d
       /\ \E k \in DOMAIN simple_graphs_d[ne] : SameShape(g, simple_graphs_d[ne][k])
    \/ VeRun(g.el, g.n).chi > self.cmax
    \/ MaxDegreePairs(g.n, Range(g.el)) > self.vmax

\* the six lists of every bucket have the same length
EqualLengths ==
    \A q \in 1..6 : \A b \in DOMAIN simple_graphs_d :
        Len(simple_vars[q][b]) = Len(simple_graphs_d[b])

\* the step appends one entry to each of the six lists of bucket ne and
\* leaves the other buckets and the entries before it as they are
AppendsOne(ne) ==
    \A q \in 1..6 :
        /\ DOMAIN simple_vars'[q] = DOMAIN simple_vars[q]
        /\ ne \in DOMAIN simple_vars[q]
        /\ Len(simple_vars'[q][ne]) = Len(simple_vars[q][ne]) + 1
        /\ SubSeq(simple_vars'[q][ne], 1, Len(simple_vars[q][ne])) = simple_vars[q][ne]
        /\ \A b \in DOMAIN simple_vars[q] \ {ne} : simple_vars'[q][b] = simple_vars[q][b]

\* no step removes, replaces or reorders an entry of the six lists
EntriesKept ==
    \A q \in 1..6 : \A b \in DOMAIN simple_vars[q] :
        /\ b \in DOMAIN simple_vars'[q]
        /\ Len(simple_vars'[q][b]) >= Len(simple_vars[q][b])
        /\ SubSeq(simple_vars'[q][b], 1, Len(simple_vars[q][b])) = simple_vars[q][b]

StoredPlaces ==
    {bk \in (DOMAIN simple_graphs_d) \X (1..(MaxN * MaxN)) :
        bk[2] \in DOMAIN simple_graphs_d[bk[1]]}

\* C19: every stored simple graph is connected: each vertex of 0..n-1 is
\* reached from vertex 0 along its edges
C19_StoredGraphsConnected ==
    \A bk \in StoredPlaces :
        LET g == simple_graphs_d[bk[1]][bk[2]]
        IN  ConnectedPairs(g.n, Range(g.el))

\* a connected graph on four vertices made by an edge move is stored, after
\* vertex moves and edge moves have both been made
C19_Witness ==
    /\ pc = "weights_loop"
    /\ <<4, 4>> \in DOMAIN simple_graphs_d
    /\ Len(simple_graphs_d[<<4, 4>>]) >= 2
    /\ <<4, 3>> \in DOMAIN simple_graphs_d
    /\ Len(simple_graphs_d[<<4, 3>>]) >= 2

\* C20: the graph stored at a place of bucket (n,e) has the vertices 0..n-1
\* and the edge list stored at that place, which has e entries (i,j) with
\* 0 <= i < j <= n-1, no two of them the same ordered pair
C20_StoredGraphsSimple ==
    \A bk \in StoredPlaces :
        LET n == bk[1][1]
            e == bk[1][2]
            g == simple_graphs_d[bk[1]][bk[2]]
        IN  /\ bk[2] \in DOMAIN edges_d[bk[1]]
            /\ g.n = n
            /\ g.el = edges_d[bk[1]][bk[2]]
            /\ Len(g.el) = e
            /\ \A i \in 1..e : /\ g.el[i] \in (0..(n - 1)) \X (0..(n - 1))
                               /\ g.el[i][1] < g.el[i][2]
            /\ \A i, j \in 1..e : i # j => g.el[i] # g.el[j]

\* graphs with more edges than a tree are stored, each made by an edge move
\* through _edge_filter: the triangle, and a graph on four vertices with a cycle
C20_Witness ==
    /\ <<3, 3>> \in DOMAIN simple_graphs_d
    /\ Len(simple_graphs_d[<<3, 3>>]) = 1
    /\ <<4, 4>> \in DOMAIN simple_graphs_d
    /\ \E k \in DOMAIN simple_graphs_d[<<4, 4>>] :
          Len(edges_d[<<4, 4>>][k]) = 4

(***************************************************************************)
(* Properties of EFN.eval_filters.                                         *)
(***************************************************************************)
\* C21: a call of eval_filters with patch a single number <= 0 ends in a
\* ValueError saying that the patch must be positive, and no filter is
\* evaluated
C21_NotPositivePatchIsValueError ==
    (/\ ef_pc \in {"returned", "error"}
     /\ ef_args.patch.kind = "number"
     /\ ef_args.patch.val <= 0)
        => /\ ef_pc = "error"
           /\ ef_err = "ValueError: patch must be positive when passing as a single number."
           /\ ef_Z = << >>

(***************************************************************************)
(* Properties of EFP.                                                      *)
(***************************************************************************)
\* C22: reading c of a constructed EFP does not fail: it gives the chi of the
\* variable elimination when the EFP was built with one, and None for an EFP
\* built in EFM mode
C22_ReadingCNeverFails ==
    efp_pc \in {"read", "error"} =>
        /\ efp_pc = "read"
        /\ efp_args.use_efms => efp_ret = [kind |-> "None"]
        /\ ~efp_args.use_efms =>
              efp_ret = [kind |-> "int",
                         val  |-> VeRun(SimpleEdges(efp_args.edges),
                                        Cardinality(VerticesOf(efp_args.edges))).chi]

(***************************************************************************)
(* Properties of the prime table as CompositeGenerator reads it.           *)
(***************************************************************************)
\* the places of the prime rows with the (n,d,k) of the triple t
RowsWith(t) ==
    {i \in DOMAIN c_specs : <<c_specs[i].n, c_specs[i].d, c_specs[i].k>> = t}

\* C23: in the prime table the column w of the i-th row is i (from 0) and
\* the k of a row counts the rows before it with its (n,d); every (n,d,k) of
\* a formula is a key of ndk2w and the row at the w it gives is the only
\* prime row with that (n,d,k); and the g of a prime row is the place in
\* edges of a graph with e edges
C23_PrimeLookupExact ==
    /\ \A i \in DOMAIN c_specs :
          /\ c_specs[i].w = i - 1
          /\ c_specs[i].k = Cardinality({j \in 1..(i - 1) :
                                /\ c_specs[j].n = c_specs[i].n
                                /\ c_specs[j].d = c_specs[i].d})
          /\ (c_specs[i].g + 1) \in DOMAIN edges
          /\ Len(edges[c_specs[i].g + 1]) = c_specs[i].e
    /\ \A f \in Range(loc_formulae) \cup Range(disc_formulae) :
          \A t \in Range(f) :
              /\ t \in DOMAIN comp.ndk2w
              /\ RowsWith(t) = {comp.ndk2w[t] + 1}

\* a stored graph has no weighting and so no row, a prime row comes after it
\* in the table, some (n,d) has several prime rows, and a composite has been
\* made from a prime with k > 0
C23_Witness ==
    /\ \E gp \in DOMAIN edges :
          /\ \A i \in DOMAIN c_specs : c_specs[i].g # gp - 1
          /\ \E i \in DOMAIN c_specs : c_specs[i].g > gp - 1
    /\ \E f \in Range(loc_formulae) : \E t \in Range(f) : t[3] > 0

=============================================================================
